---- MODULE Spec2Model ----
(***************************************************************************)
(* Webhook transaction service: the ingestion endpoint receive_webhook,    *)
(* the read endpoint get_transaction (app/main.py), the Celery task        *)
(* process_transaction (app/worker.py) and the transactions table          *)
(* (app/models.py).                                                        *)
(*                                                                         *)
(* Every request handler and every worker run is a process whose steps     *)
(* are the database and broker round trips of its code; the steps of       *)
(* different processes interleave freely.  Time is one integer clock `now` *)
(* read both by the database (func.now()) and by the worker                *)
(* (datetime.utcnow()).                                                    *)
(***************************************************************************)
EXTENDS Integers, FiniteSets, Sequences, Bags, TLC

\* ---------------------------------------------------------------- bounds
NumRequests == 2
NumWorkers == 2
MaxClock == 1

Requests == 1..NumRequests
Times == 0..MaxClock

\* ---------------------------------------------------------------- inputs
TxIds == {"tx1", "tx2"}

\* The non-key fields of schemas.TransactionCreate: two bodies that differ
\* in every field, so that a duplicate may carry different values.
Payloads ==
    { [source_account |-> "A", destination_account |-> "B",
       amount |-> 100, currency |-> "USD"],
      [source_account |-> "C", destination_account |-> "D",
       amount |-> 250, currency |-> "EUR"] }

\* SQL NULL / Python None in a timestamp column; below every timestamp.
Null == 0 - 1

\* HTTPException(status_code=404, ...) of get_transaction
NotFound == [status_code |-> 404, detail |-> "Transaction not found"]
NoResponse == [status_code |-> 0, detail |-> ""]

NoId == ""
NoPayload ==
    [source_account |-> "", destination_account |-> "",
     amount |-> 0, currency |-> ""]

VARIABLES
    store,       \* the transactions table: a set of rows
    queue,       \* broker: tasks published per transaction_id
    now,         \* the clock
    rpc,         \* request handler p: "idle", "add", "enqueue", "done"
    rid,         \* payload.transaction_id of request p
    rbody,       \* the other payload fields of request p, until it commits
    resp,        \* response of p: "NONE", "ACCEPTED", "ALREADY_EXISTS", "ERROR"
    exc,         \* exception that ended p, "none" if none
    runs,        \* the process_transaction runs that have assigned
                 \* txn.processed_at and not yet committed: a bag of
                 \* [transaction_id, processed_at], one copy per worker
    getId,       \* transaction_id of the get_transaction call just served
    getResult,   \* its response: NotFound or the row; NoResponse when the
                 \* last step served no get_transaction call
    handled,     \* ids for which a process_transaction run has committed
    absent       \* transaction_id of the run that just ended without finding
                 \* a row; NoId when the last step was no such run

vars == << store, queue, now, rpc, rid, rbody, resp, exc,
           runs, getId, getResult, handled, absent >>

reqVars == << rpc, rid, rbody, resp, exc >>

\* ----------------------------------------------------------------- table
\* db.query(models.Transaction).filter_by(transaction_id=t): the rows with key t
RowsOf(S, t) == { r \in S : r.transaction_id = t }

\* .first() is truthy
Exists(S, t) == RowsOf(S, t) # {}

\* .first(): the row found (used only where Exists holds)
First(S, t) == CHOOSE r \in RowsOf(S, t) : TRUE

\* A row created without the server default for created_at.
NewTxnNoDefault(t, body, ts) ==
    [transaction_id |-> t,
     source_account |-> body.source_account,
     destination_account |-> body.destination_account,
     amount |-> body.amount,
     currency |-> body.currency,
     status |-> "PROCESSING",
     created_at |-> Null,
     processed_at |-> Null]

\* models.Transaction(...) as INSERTed: status "PROCESSING", created_at from
\* server_default=func.now(), processed_at NULL.
NewTxn(t, body, ts) ==
    [transaction_id |-> t,
     source_account |-> body.source_account,
     destination_account |-> body.destination_account,
     amount |-> body.amount,
     currency |-> body.currency,
     status |-> "PROCESSING",
     created_at |-> ts,
     processed_at |-> Null]

\* A table without the key constraint.
NoPrimaryKey(S, t) == FALSE

\* The primary key on transaction_id: an INSERT of key t is rejected when a
\* row with key t is present.
PrimaryKeyViolation(S, t) == Exists(S, t)

\* An UPDATE that moves the status and leaves processed_at alone.
UpdateStatusOnly(S, t, ts) ==
    { IF r.transaction_id = t THEN [r EXCEPT !.status = "PROCESSED"] ELSE r : r \in S }

\* An UPDATE without its WHERE clause.
UpdateAllRows(S, t, ts) ==
    { [r EXCEPT !.status = "PROCESSED", !.processed_at = ts] : r \in S }

\* The UPDATE the worker's commit flushes: status and processed_at of the
\* rows with key t.
UpdateProcessed(S, t, ts) ==
    { IF r.transaction_id = t
        THEN [r EXCEPT !.status = "PROCESSED", !.processed_at = ts]
        ELSE r : r \in S }

Init ==
    /\ store = {}
    /\ queue = [t \in TxIds |-> 0]
    /\ now = 0
    /\ rpc = [p \in Requests |-> "idle"]
    /\ rid = [p \in Requests |-> NoId]
    /\ rbody = [p \in Requests |-> NoPayload]
    /\ resp = [p \in Requests |-> "NONE"]
    /\ exc = [p \in Requests |-> "none"]
    /\ runs = EmptyBag
    /\ getId = NoId
    /\ getResult = NoResponse
    /\ handled = {}
    /\ absent = NoId

\* A step that serves no get_transaction call returns no read response.
NoGet == getId' = NoId /\ getResult' = NoResponse

\* A step that is no run ending on a missing row.
NoMiss == absent' = NoId

\* A clock reading: the time of the last reading, or a later one.  Only the
\* order of timestamps matters, so time moves one unit at a time.
ClockReadings == { ts \in Times : ts = now \/ ts = now + 1 }

\* ------------------------------------------------------- receive_webhook
\* Request slots are taken in order: slot p is used after slot p - 1.
NextSlot(p) == rpc[p] = "idle" /\ (IF p = 1 THEN TRUE ELSE rpc[p - 1] # "idle")

\* Identifiers are opaque and interchangeable: "tx2" names the second
\* identifier to be submitted.
NextId(t) == IF t = "tx1" THEN TRUE ELSE \E q \in Requests : rid[q] = "tx1"

\* Payload values are opaque and interchangeable as well: the second body is
\* one that differs from a body still held by a row or a handler.
Body1 == CHOOSE b \in Payloads : b.source_account = "A"
NextBody(body) ==
    IF body = Body1 THEN TRUE
    ELSE IF \E r \in store : r.source_account = Body1.source_account THEN TRUE
    ELSE \E q \in Requests : rbody[q] = Body1

\* A handler that creates without looking first.
LookupNoCheck(p, t, body) ==
    /\ NextSlot(p)
    /\ NextId(t)
    /\ NextBody(body)
    /\ rid' = [rid EXCEPT ![p] = t]
    /\ rpc' = [rpc EXCEPT ![p] = "add"]
    /\ rbody' = [rbody EXCEPT ![p] = body]
    /\ NoGet
    /\ NoMiss
    /\ UNCHANGED << store, queue, now, resp, exc, runs, handled >>

\* A handler that overwrites the row found with the fields of the payload.
LookupUpsert(p, t, body) ==
    /\ NextSlot(p)
    /\ NextId(t)
    /\ NextBody(body)
    /\ rid' = [rid EXCEPT ![p] = t]
    /\ rbody' = [rbody EXCEPT ![p] = body]
    /\ IF Exists(store, t)
         THEN /\ rpc' = [rpc EXCEPT ![p] = "done"]
              /\ resp' = [resp EXCEPT ![p] = "ALREADY_EXISTS"]
              /\ store' = { IF r.transaction_id = t
                              THEN [r EXCEPT !.source_account = body.source_account,
                                             !.destination_account = body.destination_account,
                                             !.amount = body.amount,
                                             !.currency = body.currency]
                              ELSE r : r \in store }
         ELSE /\ rpc' = [rpc EXCEPT ![p] = "add"]
              /\ resp' = resp
              /\ store' = store
    /\ NoGet
    /\ NoMiss
    /\ UNCHANGED << queue, now, exc, runs, handled >>

\* A handler that takes a resubmission as a request to process again.
LookupReset(p, t, body) ==
    /\ NextSlot(p)
    /\ NextId(t)
    /\ NextBody(body)
    /\ rid' = [rid EXCEPT ![p] = t]
    /\ rbody' = [rbody EXCEPT ![p] = body]
    /\ IF Exists(store, t)
         THEN /\ rpc' = [rpc EXCEPT ![p] = "done"]
              /\ resp' = [resp EXCEPT ![p] = "ALREADY_EXISTS"]
              /\ store' = { IF r.transaction_id = t
                              THEN [r EXCEPT !.status = "PROCESSING",
                                             !.processed_at = Null]
                              ELSE r : r \in store }
         ELSE /\ rpc' = [rpc EXCEPT ![p] = "add"]
              /\ resp' = resp
              /\ store' = store
    /\ NoGet
    /\ NoMiss
    /\ UNCHANGED << queue, now, exc, runs, handled >>

\* A handler that publishes the task as soon as the lookup finds no row,
\* before the row is committed.
LookupEnqueueFirst(p, t, body) ==
    /\ NextSlot(p)
    /\ NextId(t)
    /\ NextBody(body)
    /\ rid' = [rid EXCEPT ![p] = t]
    /\ rbody' = [rbody EXCEPT ![p] = body]
    /\ IF Exists(store, t)
         THEN /\ rpc' = [rpc EXCEPT ![p] = "done"]
              /\ resp' = [resp EXCEPT ![p] = "ALREADY_EXISTS"]
              /\ queue' = queue
         ELSE /\ rpc' = [rpc EXCEPT ![p] = "add"]
              /\ resp' = resp
              /\ queue' = [queue EXCEPT ![t] = 1]
    /\ NoGet
    /\ NoMiss
    /\ UNCHANGED << store, now, exc, runs, handled >>

\* A handler that publishes the task again for a duplicate.
LookupReenqueue(p, t, body) ==
    /\ NextSlot(p)
    /\ NextId(t)
    /\ NextBody(body)
    /\ rid' = [rid EXCEPT ![p] = t]
    /\ rbody' = [rbody EXCEPT ![p] = body]
    /\ IF Exists(store, t)
         THEN /\ rpc' = [rpc EXCEPT ![p] = "done"]
              /\ resp' = [resp EXCEPT ![p] = "ALREADY_EXISTS"]
              /\ queue' = [queue EXCEPT ![t] = @ + 1]
         ELSE /\ rpc' = [rpc EXCEPT ![p] = "add"]
              /\ resp' = resp
              /\ queue' = queue
    /\ NoGet
    /\ NoMiss
    /\ UNCHANGED << store, now, exc, runs, handled >>

\* main.py 42-46: the lookup; a row found ends the call with ALREADY_EXISTS.
\* rbody keeps the payload of a duplicate, to tell what it carried.
Lookup(p, t, body) ==
    /\ NextSlot(p)
    /\ NextId(t)
    /\ NextBody(body)
    /\ rid' = [rid EXCEPT ![p] = t]
    /\ IF Exists(store, t)
         THEN /\ rpc' = [rpc EXCEPT ![p] = "done"]
              /\ resp' = [resp EXCEPT ![p] = "ALREADY_EXISTS"]
         ELSE /\ rpc' = [rpc EXCEPT ![p] = "add"]
              /\ resp' = resp
    /\ rbody' = [rbody EXCEPT ![p] = body]
    /\ NoGet
    /\ NoMiss
    /\ UNCHANGED << store, queue, now, exc, runs, handled >>

\* main.py 48-57: db.add(new_txn); db.commit().  The INSERT either violates
\* the primary key (IntegrityError, not caught: the call ends in an error)
\* or creates the row.
Commit(p, ts) ==
    /\ rpc[p] = "add"
    /\ now' = ts
    /\ IF PrimaryKeyViolation(store, rid[p])
         THEN /\ store' = store
              /\ rpc' = [rpc EXCEPT ![p] = "done"]
              /\ resp' = [resp EXCEPT ![p] = "ERROR"]
              /\ exc' = [exc EXCEPT ![p] = "IntegrityError"]
         ELSE /\ store' = store \cup { NewTxn(rid[p], rbody[p], ts) }
              /\ rpc' = [rpc EXCEPT ![p] = "enqueue"]
              /\ resp' = resp
              /\ exc' = exc
    /\ rbody' = [rbody EXCEPT ![p] = NoPayload]
    /\ NoGet
    /\ NoMiss
    /\ UNCHANGED << queue, rid, runs, handled >>

\* A handler that publishes the task before it commits: the failed commit
\* leaves the task behind.
CommitFailEnqueued(p) ==
    /\ rpc[p] = "add"
    /\ queue' = [queue EXCEPT ![rid[p]] = @ + 1]
    /\ rpc' = [rpc EXCEPT ![p] = "done"]
    /\ resp' = [resp EXCEPT ![p] = "ERROR"]
    /\ exc' = [exc EXCEPT ![p] = "OperationalError"]
    /\ rbody' = [rbody EXCEPT ![p] = NoPayload]
    /\ NoGet
    /\ NoMiss
    /\ UNCHANGED << store, now, rid, runs, handled >>

\* main.py 57: db.commit() raises because the database is unavailable; the
\* transaction is rolled back and the exception ends the call.
CommitFail(p) ==
    /\ rpc[p] = "add"
    /\ rpc' = [rpc EXCEPT ![p] = "done"]
    /\ resp' = [resp EXCEPT ![p] = "ERROR"]
    /\ exc' = [exc EXCEPT ![p] = "OperationalError"]
    /\ rbody' = [rbody EXCEPT ![p] = NoPayload]
    /\ NoGet
    /\ NoMiss
    /\ UNCHANGED << store, queue, now, rid, runs, handled >>

\* A handler that answers ACCEPTED without publishing the task.
EnqueueDropped(p) ==
    /\ rpc[p] = "enqueue"
    /\ rpc' = [rpc EXCEPT ![p] = "done"]
    /\ resp' = [resp EXCEPT ![p] = "ACCEPTED"]
    /\ NoGet
    /\ NoMiss
    /\ UNCHANGED << store, queue, now, rid, rbody, exc, runs, handled >>

\* main.py 58-59: process_transaction.delay(id) publishes the task, then the
\* call returns ACCEPTED.
Enqueue(p) ==
    /\ rpc[p] = "enqueue"
    /\ queue' = [queue EXCEPT ![rid[p]] = @ + 1]
    /\ rpc' = [rpc EXCEPT ![p] = "done"]
    /\ resp' = [resp EXCEPT ![p] = "ACCEPTED"]
    /\ NoGet
    /\ NoMiss
    /\ UNCHANGED << store, now, rid, rbody, exc, runs, handled >>

\* A .delay() that raises after the broker has taken the task.
EnqueueFailPublished(p) ==
    /\ rpc[p] = "enqueue"
    /\ queue' = [queue EXCEPT ![rid[p]] = @ + 1]
    /\ rpc' = [rpc EXCEPT ![p] = "done"]
    /\ resp' = [resp EXCEPT ![p] = "ERROR"]
    /\ exc' = [exc EXCEPT ![p] = "BrokerError"]
    /\ NoGet
    /\ NoMiss
    /\ UNCHANGED << store, now, rid, rbody, runs, handled >>

\* main.py 58: .delay() raises because the broker is unavailable; the row
\* committed at line 57 stays.
EnqueueFail(p) ==
    /\ rpc[p] = "enqueue"
    /\ rpc' = [rpc EXCEPT ![p] = "done"]
    /\ resp' = [resp EXCEPT ![p] = "ERROR"]
    /\ exc' = [exc EXCEPT ![p] = "BrokerError"]
    /\ NoGet
    /\ NoMiss
    /\ UNCHANGED << store, queue, now, rid, rbody, runs, handled >>

\* ------------------------------------------------------- get_transaction
\* A read that answers an unknown id with an empty record.
GetResponseDefault(S, t) ==
    IF Exists(S, t) THEN First(S, t) ELSE NewTxn(t, NoPayload, Null)

\* main.py 65-70: the row, or HTTP 404.
GetResponse(S, t) == IF Exists(S, t) THEN First(S, t) ELSE NotFound

GetTransaction(t) ==
    /\ getId' = t
    /\ getResult' = GetResponse(store, t)
    /\ NoMiss
    /\ UNCHANGED << store, queue, now, reqVars, runs, handled >>

\* --------------------------------------------------- process_transaction
\* A worker whose clock is behind the database's.
RunSkewed(t, ts) == [transaction_id |-> t, processed_at |-> ts - 1]

\* A session of a run: the key it looked up and the processed_at it assigned.
Run(t, ts) == [transaction_id |-> t, processed_at |-> ts]

\* A worker of the pool is free.
FreeWorker == BagCardinality(runs) < NumWorkers

\* A run that creates the row it does not find.
HandleCreate(t, ts) ==
    /\ FreeWorker
    /\ queue[t] > 0
    /\ now' = ts
    /\ runs' = IF Exists(store, t) THEN runs (+) SetToBag({ Run(t, ts) }) ELSE runs
    /\ absent' = IF Exists(store, t) THEN NoId ELSE t
    /\ store' = IF Exists(store, t) THEN store
                 ELSE store \cup { NewTxn(t, NoPayload, ts) }
    /\ NoGet
    /\ UNCHANGED << queue, reqVars, handled >>

\* A worker that picks up ids without a published task.
HandleAny(t, ts) ==
    /\ FreeWorker
    /\ now' = ts
    /\ runs' = IF Exists(store, t) THEN runs (+) SetToBag({ Run(t, ts) }) ELSE runs
    /\ absent' = IF Exists(store, t) THEN NoId ELSE t
    /\ NoGet
    /\ UNCHANGED << store, queue, reqVars, handled >>

\* worker.py 15-24.  The broker hands a published task to a free worker;
\* delivery is at least once: a published task may be delivered again, any
\* number of times.  After the sleep (which touches no state) the run
\* looks the row up; a row found gets status and processed_at assigned in
\* the session; none found ends the run (26-28).
Handle(t, ts) ==
    /\ FreeWorker
    /\ queue[t] > 0
    /\ now' = ts
    /\ runs' = IF Exists(store, t) THEN runs (+) SetToBag({ Run(t, ts) }) ELSE runs
    /\ absent' = IF Exists(store, t) THEN NoId ELSE t
    /\ NoGet
    /\ UNCHANGED << store, queue, reqVars, handled >>

\* worker.py 25-28: db.commit() flushes the UPDATE; the run ends.
WorkerCommit(r) ==
    /\ BagIn(r, runs)
    /\ store' = UpdateProcessed(store, r.transaction_id, r.processed_at)
    /\ handled' = handled \cup { r.transaction_id }
    /\ runs' = runs (-) SetToBag({ r })
    /\ NoGet
    /\ NoMiss
    /\ UNCHANGED << queue, now, reqVars >>

\* ---------------------------------------------------------- specification
Next ==
    \/ \E p \in Requests, t \in TxIds, body \in Payloads : Lookup(p, t, body)
    \/ \E p \in Requests, ts \in ClockReadings : Commit(p, ts)
    \/ \E p \in Requests : CommitFail(p)
    \/ \E p \in Requests : Enqueue(p)
    \/ \E p \in Requests : EnqueueFail(p)
    \/ \E t \in TxIds : GetTransaction(t)
    \/ \E t \in TxIds, ts \in ClockReadings : Handle(t, ts)
    \/ \E r \in BagToSet(runs) : WorkerCommit(r)

Spec == Init /\ [][Next]_vars

\* Calls to receive_webhook made in sequence: a call starts when no other
\* call is in flight.  The workers run as before.
NoCallInFlight == \A q \in Requests : rpc[q] \in {"idle", "done"}

LookupSeq(p, t, body) == NoCallInFlight /\ Lookup(p, t, body)

NextSeq ==
    \/ \E p \in Requests, t \in TxIds, body \in Payloads : LookupSeq(p, t, body)
    \/ \E p \in Requests, ts \in ClockReadings : Commit(p, ts)
    \/ \E p \in Requests : CommitFail(p)
    \/ \E p \in Requests : Enqueue(p)
    \/ \E p \in Requests : EnqueueFail(p)
    \/ \E t \in TxIds : GetTransaction(t)
    \/ \E t \in TxIds, ts \in ClockReadings : Handle(t, ts)
    \/ \E r \in BagToSet(runs) : WorkerCommit(r)

SpecSeq == Init /\ [][NextSeq]_vars

\* process_transaction is a task any client of the broker can publish: a
\* task for t that does not come from receive_webhook, so that t may have no
\* row.  One such task per id is enough: it can be delivered again and again.
DirectTask(t) ==
    /\ queue[t] = 0
    /\ queue' = [queue EXCEPT ![t] = 1]
    /\ NoGet
    /\ NoMiss
    /\ UNCHANGED << store, now, reqVars, runs, handled >>

\* The submissions and the workers of Spec, without the database and broker
\* failures and without the reads, together with the direct tasks.
NextDirect ==
    \/ \E p \in Requests, t \in TxIds, body \in Payloads : Lookup(p, t, body)
    \/ \E p \in Requests, ts \in ClockReadings : Commit(p, ts)
    \/ \E p \in Requests : Enqueue(p)
    \/ \E t \in TxIds : DirectTask(t)
    \/ \E t \in TxIds, ts \in ClockReadings : Handle(t, ts)
    \/ \E r \in BagToSet(runs) : WorkerCommit(r)

SpecDirect == Init /\ [][NextDirect]_vars

\* The system without database and broker outages (the primary-key conflict
\* stays: it is part of Commit) and without the reads.
NextLive ==
    \/ \E p \in Requests, t \in TxIds, body \in Payloads : Lookup(p, t, body)
    \/ \E p \in Requests, ts \in ClockReadings : Commit(p, ts)
    \/ \E p \in Requests : Enqueue(p)
    \/ \E t \in TxIds, ts \in ClockReadings : Handle(t, ts)
    \/ \E r \in BagToSet(runs) : WorkerCommit(r)

\* The broker delivers a published task of t to a worker: workers are busy
\* at times, so delivery is strongly fair.
Delivery(t) == \E ts \in ClockReadings : Handle(t, ts)

\* A worker that holds a run for t goes on to its commit.
Completion(t) ==
    \E r \in BagToSet(runs) : r.transaction_id = t /\ WorkerCommit(r)

Fairness == \A t \in TxIds : SF_vars(Delivery(t)) /\ WF_vars(Completion(t))

SpecLive == Init /\ [][NextLive]_vars /\ Fairness

\* ------------------------------------------------------------------ claims
\* A call that ended in an infrastructure failure (database or broker down).
Failed(p) == exc[p] \in {"OperationalError", "BrokerError"}

\* p is the first call made for its identifier.
FirstCallFor(p) == \A r \in Requests : r < p => rid[r] # rid[p]

\* C1 (sequential idempotent ingestion): when receive_webhook is called in
\* sequence with the same transaction_id and no call hits a database or
\* broker failure, the first call returns ACCEPTED, every later one returns
\* ALREADY_EXISTS, exactly one row exists for the id and exactly one task
\* has been enqueued for it.
C1_SequentialIdempotent ==
    \A p, q \in Requests :
        ( /\ p < q
          /\ rpc[p] = "done" /\ rpc[q] = "done"
          /\ rid[p] = rid[q]
          /\ FirstCallFor(p)
          /\ ~Failed(p) /\ ~Failed(q) )
        => /\ resp[p] = "ACCEPTED"
           /\ resp[q] = "ALREADY_EXISTS"
           /\ Cardinality(RowsOf(store, rid[p])) = 1
           /\ queue[rid[p]] = 1

C1_Witness ==
    \E p, q \in Requests :
        /\ p < q /\ rid[p] = rid[q] /\ FirstCallFor(p)
        /\ resp[p] = "ACCEPTED" /\ resp[q] = "ALREADY_EXISTS"


\* The calls made for identifier t.
CallsFor(t) == { p \in Requests : rid[p] = t }

\* C2 (concurrent duplicate submission): once all calls made for an
\* identifier have returned, none of them after a database or broker failure,
\* and there were at least two, exactly one returned ACCEPTED and every other
\* one ALREADY_EXISTS; none ended in an error.
C2_ConcurrentDuplicates ==
    \A t \in TxIds :
        ( /\ Cardinality(CallsFor(t)) >= 2
          /\ \A p \in CallsFor(t) : rpc[p] = "done" /\ ~Failed(p) )
        => /\ Cardinality({ p \in CallsFor(t) : resp[p] = "ACCEPTED" }) = 1
           /\ \A p \in CallsFor(t) : resp[p] \in {"ACCEPTED", "ALREADY_EXISTS"}

\* At most one row per key.
UniqueIds == \A r1, r2 \in store : r1.transaction_id = r2.transaction_id => r1 = r2

\* A step keeps a row for every key that has one.
NeverRemoved == \A r \in store : Exists(store', r.transaction_id)

\* C3 (uniqueness): in every state the table holds at most one row per
\* transaction_id, and no step removes the row of an identifier.
C3_UniqueAndKept == []UniqueIds /\ [][NeverRemoved]_vars

C3_Witness ==
    \E p \in Requests :
        /\ exc[p] = "IntegrityError"
        /\ Cardinality(RowsOf(store, rid[p])) = 1
        /\ rid[p] \in handled

\* C4 (idempotent processing): a process_transaction run that commits on a
\* row whose processed_at is already set leaves status PROCESSED and
\* processed_at as the first run set them.
C4_ProcessedAtSetOnce ==
    [][ \A r \in store :
          r.processed_at # Null =>
            \A r2 \in RowsOf(store', r.transaction_id) :
                r2.status = "PROCESSED" /\ r2.processed_at = r.processed_at ]_vars

\* C5: in every committed state of every row, processed_at is set exactly
\* when status is PROCESSED.
C5_ProcessedAtIffProcessed ==
    \A r \in store : (r.processed_at # Null) <=> (r.status = "PROCESSED")

\* A processed row while a second run for the same id is still to commit.
C5_Witness ==
    \E r \in store :
        /\ r.status = "PROCESSED"
        /\ r.processed_at # Null
        /\ \E k \in BagToSet(runs) : k.transaction_id = r.transaction_id

\* The step in which the commit of call p raises.
CommitFails(p) ==
    /\ rpc[p] = "add"
    /\ exc'[p] \in {"OperationalError", "IntegrityError"}

\* C6 (persist before enqueue): a task is published for an id only when the
\* row of that id is already committed; a call whose commit fails ends in an
\* error, and the step leaves the table and the queue as they were, so that
\* nothing of the call is left for a retry to find.
C6_PersistBeforeEnqueue ==
    [][ /\ \A t \in TxIds : queue'[t] > queue[t] => Exists(store, t)
        /\ \A p \in Requests :
              CommitFails(p) =>
                /\ rpc'[p] = "done" /\ resp'[p] = "ERROR"
                /\ store' = store
                /\ queue' = queue ]_vars

\* A submission that failed at the commit, retried and accepted.
C6_Witness ==
    \E p, q \in Requests :
        /\ p < q /\ rid[p] = rid[q]
        /\ exc[p] = "OperationalError" /\ resp[p] = "ERROR"
        /\ resp[q] = "ACCEPTED"
        /\ queue[rid[p]] = 1

\* The step in which a run with session k commits.
RunCommits(k) == CopiesIn(k, runs') < CopiesIn(k, runs)

\* C7 (processing transition): when a process_transaction run that found the
\* row commits, the row has status PROCESSED and a processed_at that is set
\* and not earlier than created_at.
C7_ProcessingTransition ==
    [][ \A k \in BagToSet(runs) :
          RunCommits(k) =>
            /\ Exists(store', k.transaction_id)
            /\ \A r \in RowsOf(store', k.transaction_id) :
                  /\ r.status = "PROCESSED"
                  /\ r.processed_at # Null
                  /\ r.processed_at >= r.created_at ]_vars

\* A row created after time 0 and processed.
C7_Witness ==
    \E r \in store :
        /\ r.transaction_id \in handled
        /\ r.status = "PROCESSED"
        /\ r.created_at > 0
        /\ r.processed_at >= r.created_at

\* Some call for t has returned ACCEPTED.
Accepted(t) == \E p \in Requests : rid[p] = t /\ resp[p] = "ACCEPTED"

\* C8 (read your write): a get_transaction served for an id for which a call
\* has returned ACCEPTED and no process_transaction run has committed returns
\* the row, with status PROCESSING, created_at set and processed_at null.
C8_ReadYourWrite ==
    [][ \A t \in TxIds :
          (getId' = t /\ Accepted(t) /\ t \notin handled) =>
            /\ getResult' \in RowsOf(store, t)
            /\ getResult'.status = "PROCESSING"
            /\ getResult'.created_at # Null
            /\ getResult'.processed_at = Null ]_vars

C8_Witness ==
    /\ getId \in TxIds
    /\ Accepted(getId)
    /\ getId \notin handled
    /\ getResult \in store
    /\ \E k \in BagToSet(runs) : k.transaction_id = getId

\* C9 (pure read): get_transaction answers an id that has no row with the
\* not-found failure and an id that has one with that row, and the step
\* leaves the table and the queue unchanged.
C9_PureRead ==
    [][ \A t \in TxIds :
          getId' = t =>
            /\ ~Exists(store, t) => getResult' = NotFound
            /\ Exists(store, t) => getResult' \in RowsOf(store, t)
            /\ store' = store
            /\ queue' = queue ]_vars

\* A read of an unknown id while the table holds another row.
C9_Witness ==
    /\ getId \in TxIds
    /\ getResult = NotFound
    /\ store # {}

\* Two row values agree on the fields set at creation.
SameCreation(r1, r2) ==
    /\ r1.transaction_id = r2.transaction_id
    /\ r1.source_account = r2.source_account
    /\ r1.destination_account = r2.destination_account
    /\ r1.amount = r2.amount
    /\ r1.currency = r2.currency
    /\ r1.created_at = r2.created_at

\* C10 (field immutability): no step changes the transaction_id,
\* source_account, destination_account, amount, currency or created_at of
\* a row.
C10_FieldsImmutable ==
    [][ \A r \in store :
          /\ \E r2 \in store' : SameCreation(r, r2)
          /\ \A r2 \in RowsOf(store', r.transaction_id) : SameCreation(r, r2) ]_vars

\* A duplicate that carried other field values than the row, which has been
\* processed since.
C10_Witness ==
    \E p \in Requests, r \in store :
        /\ rid[p] = r.transaction_id
        /\ resp[p] = "ALREADY_EXISTS"
        /\ rbody[p].source_account # r.source_account
        /\ rbody[p].amount # r.amount
        /\ r.status = "PROCESSED"

\* C11 (status monotonicity): no step takes a row from PROCESSED back to
\* PROCESSING, whether a receive_webhook call, a resubmission of the same id
\* or a process_transaction run.
C11_StatusMonotonic ==
    [][ \A r \in store :
          r.status = "PROCESSED" =>
            /\ Exists(store', r.transaction_id)
            /\ \A r2 \in RowsOf(store', r.transaction_id) :
                  r2.status = "PROCESSED" ]_vars

\* A processed row that has been resubmitted and has a further run to commit.
C11_Witness ==
    \E r \in store, p \in Requests :
        /\ r.status = "PROCESSED"
        /\ rid[p] = r.transaction_id /\ resp[p] = "ALREADY_EXISTS"
        /\ \E k \in BagToSet(runs) : k.transaction_id = r.transaction_id

\* C12 (the worker never sees a missing row): no process_transaction run
\* delivered for a published task ends without finding the row of its id.
C12_NoMissingRow == absent = NoId

\* A run that found its row while another submission is between its lookup
\* and its commit.
C12_Witness ==
    /\ \E k \in BagToSet(runs) : Exists(store, k.transaction_id)
    /\ \E p \in Requests : rpc[p] = "add"

\* The step in which call p looks up and finds a row.
FindsRow(p) == rpc[p] = "idle" /\ rpc'[p] # "idle" /\ Exists(store, rid'[p])

\* C13 (a duplicate writes nothing): a receive_webhook call whose lookup finds
\* a row returns ALREADY_EXISTS and leaves the table and the queue unchanged,
\* whatever the status of the row and the fields of the payload.
C13_DuplicateWritesNothing ==
    [][ \A p \in Requests :
          FindsRow(p) =>
            /\ rpc'[p] = "done" /\ resp'[p] = "ALREADY_EXISTS"
            /\ store' = store
            /\ queue' = queue ]_vars

\* A duplicate with other field values answered while the row is PROCESSING.
C13_Witness ==
    \E p \in Requests, r \in store :
        /\ rid[p] = r.transaction_id
        /\ resp[p] = "ALREADY_EXISTS"
        /\ rbody[p].currency # r.currency
        /\ r.status = "PROCESSING"

\* C14 (handle on an absent id): a process_transaction run for an id that has
\* no row ends at once, without a session left to commit; the step creates no
\* row, changes no row and publishes nothing.
C14_AbsentIsNoOp ==
    [][ \A t \in TxIds :
          absent' = t =>
            /\ store' = store
            /\ queue' = queue
            /\ runs' = runs
            /\ handled' = handled ]_vars

\* A run for an id without a row, while the table holds the row of another.
C14_Witness ==
    /\ absent \in TxIds
    /\ ~Exists(store, absent)
    /\ store # {}

\* The ids whose enqueue failed after the commit of their row.
EnqueueFailedIds == { rid[p] : p \in { q \in Requests : exc[q] = "BrokerError" } }

\* The row of t is there, PROCESSING, with no task, no run and no ACCEPTED.
Stuck(t) ==
    /\ Exists(store, t)
    /\ \A r \in RowsOf(store, t) : r.status = "PROCESSING" /\ r.processed_at = Null
    /\ queue[t] = 0
    /\ \A k \in BagToSet(runs) : k.transaction_id # t
    /\ t \notin handled
    /\ \A q \in Requests : rid[q] = t => resp[q] # "ACCEPTED"

\* The step in which call q starts, for an id whose enqueue has failed.
Resubmits(q) == rpc[q] = "idle" /\ rpc'[q] # "idle" /\ rid'[q] \in EnqueueFailedIds

\* C15 (stuck on enqueue failure): once the enqueue of an id has failed after
\* the commit, its row stays PROCESSING in every later state, no task is ever
\* published and no run ever starts for it, and every later submission of the
\* id returns ALREADY_EXISTS without publishing.
C15_StuckAfterEnqueueFailure ==
    /\ [](\A t \in EnqueueFailedIds : Stuck(t))
    /\ [][ \A q \in Requests :
             Resubmits(q) =>
               /\ resp'[q] = "ALREADY_EXISTS"
               /\ queue' = queue ]_vars

\* An enqueue failure followed by a resubmission of the id.
C15_Witness ==
    \E p, q \in Requests :
        /\ p < q /\ rid[p] = rid[q]
        /\ exc[p] = "BrokerError"
        /\ resp[q] = "ALREADY_EXISTS"

\* The calls for t that returned ACCEPTED.
AcceptedCalls(t) == { p \in Requests : rid[p] = t /\ resp[p] = "ACCEPTED" }

\* C16 (at most one enqueue per id): under any interleaving of
\* receive_webhook calls the number of tasks published for an id is at most
\* one and equals the number of ACCEPTED responses returned for it.
C16_AtMostOneEnqueue ==
    \A t \in TxIds :
        /\ queue[t] <= 1
        /\ queue[t] = Cardinality(AcceptedCalls(t))

\* Two racing calls for one id: one accepted, one rejected by the key.
C16_Witness ==
    \E p, q \in Requests :
        /\ rid[p] = rid[q]
        /\ resp[p] = "ACCEPTED"
        /\ exc[q] = "IntegrityError"
        /\ queue[rid[p]] = 1

\* The keys of a table.
Keys(S) == { r.transaction_id : r \in S }

\* The step in which a run looks its row up and opens its session.
RunStarts == BagCardinality(runs') > BagCardinality(runs)

\* C17 (worker write footprint): the lookup of a process_transaction run
\* writes nothing, and its commit for id t creates and deletes no row, leaves
\* every row of another id as it was and changes at most status and
\* processed_at of the row of t, also with several runs in flight.
C17_WorkerFootprint ==
    [][ /\ RunStarts => store' = store
        /\ \A k \in BagToSet(runs) :
              RunCommits(k) =>
                /\ Keys(store') = Keys(store)
                /\ Cardinality(store') = Cardinality(store)
                /\ \A r \in store :
                      IF r.transaction_id = k.transaction_id
                        THEN \E r2 \in store' : SameCreation(r, r2)
                        ELSE r \in store' ]_vars

\* Rows of two ids, one processed and one not, with runs still to commit.
C17_Witness ==
    /\ \E r1, r2 \in store :
          /\ r1.transaction_id # r2.transaction_id
          /\ r1.status = "PROCESSED" /\ r1.transaction_id \in handled
          /\ r2.status = "PROCESSING"
    /\ BagCardinality(runs) >= 2

\* The row of t is PROCESSED and carries its processing time.
Processed(t) ==
    \E r \in store :
        /\ r.transaction_id = t
        /\ r.status = "PROCESSED"
        /\ r.processed_at # Null

\* C18 (eventual processing): without commit and enqueue failures, with
\* every published task delivered and every run completed, each
\* transaction_id for which receive_webhook returned ACCEPTED eventually
\* has a row with status PROCESSED and a non-null processed_at.
C18_EventuallyProcessed == \A t \in TxIds : Accepted(t) ~> Processed(t)

\* An accepted id whose row has been processed, while another accepted id
\* still waits.
C18_Witness ==
    \E t, u \in TxIds :
        /\ Accepted(t) /\ Processed(t)
        /\ Accepted(u) /\ ~Processed(u)

\* C19 (PROCESSED implies dispatched): a row with status PROCESSED exists
\* only if a task for its transaction_id has been published, by the
\* receive_webhook call that committed the row and went on to ACCEPTED.
C19_ProcessedImpliesDispatched ==
    \A r \in store :
        r.status = "PROCESSED" =>
            /\ queue[r.transaction_id] > 0
            /\ AcceptedCalls(r.transaction_id) # {}

\* A processed row next to a row that is committed but not yet dispatched.
C19_Witness ==
    \E r1, r2 \in store :
        /\ r1.status = "PROCESSED"
        /\ r2.status = "PROCESSING"
        /\ queue[r2.transaction_id] = 0
        /\ \E p \in Requests : rid[p] = r2.transaction_id /\ rpc[p] = "enqueue"

====
